---- MODULE Spec2Model ----
(***************************************************************************)
(* The doctest discovery and execution harness of tests/test_docstrings.py *)
(* (_find_src_dir, iter_modules, test_docstrings) as a state machine.      *)
(*                                                                         *)
(* A state holds a project tree (directories, __init__.py files, the one   *)
(* module whose import raises), the process-wide sys.path and sys.modules, *)
(* and the position and locals of one invocation of test_docstrings.       *)
(* A path is the sequence of its components below the filesystem root.     *)
(***************************************************************************)
EXTENDS Integers, Sequences, FiniteSets, TLC

VARIABLES
    dirs,            \* the directories of the tree (paths)
    inits,           \* the directories that hold an __init__.py
    start,           \* Path(__file__).parent: the directory of the harness
    brokenLoc,       \* the module whose import raises (its location), or None
    brokenExc,       \* the exception class that import raises
    sysPath,         \* sys.path: a sequence of strings
    sysPath0,        \* sys.path as it was before the first invocation
    sysModules,      \* sys.modules: the names imported so far
    docResult,       \* name -> TestResults of doctest.testmod on that module
    pc,              \* position of the invocation
    src_or_pkg_dir,  \* iter_modules: local
    src_root,        \* iter_modules: local
    todo,            \* iter_modules: the candidates the walk has still to yield
    modules,         \* test_docstrings: list(iter_modules()), as names
    idx,             \* test_docstrings: the for loop's position in modules
    total_tests,     \* test_docstrings: local
    total_failures,  \* test_docstrings: local
    failed_modules,  \* test_docstrings: local
    stdout,          \* the lines printed by the invocation
    warned,          \* the warnings recorded by the invocation
    raised,          \* the exception the invocation ended with, or None
    swallowed,       \* the names whose ImportError the invocation swallowed
    runs,            \* invocations started so far
    previous,        \* what the invocation before this one aggregated, if it did
    readmeKind,      \* test_docs: directory -> what README.md is there
    testDir,         \* test_docs: Path(__file__).resolve().parent
    current_dir,     \* readme_path: local
    readme,          \* the path readme_path returned, or None
    want,            \* check_output: the expected output, as its words
    got,             \* check_output: the actual output, as its words
    accepted,        \* what check_output returned, if it was called
    failed,          \* test_doc: result.failed
    docsPc,          \* position of test_doc and its fixture
    docsRaised       \* the exception test_doc or its fixture ended with

vars == <<dirs, inits, start, brokenLoc, brokenExc, sysPath, sysPath0,
          sysModules, docResult, pc, src_or_pkg_dir, src_root, todo, modules,
          idx, total_tests, total_failures, failed_modules, stdout, warned,
          raised, swallowed, runs, previous, readmeKind, testDir, current_dir,
          readme, want, got, accepted, failed, docsPc, docsRaised>>

\* the state of test_docs.py, which no step of test_docstrings touches
docsVars == <<readmeKind, testDir, current_dir, readme, want, got, accepted,
              failed, docsPc, docsRaised>>

treeVars == <<dirs, inits, start, brokenLoc, brokenExc, sysPath0, docsVars>>

\* Python's None where a path is expected
None == <<"None">>

\* no exception
NoException == "None"

\* the value of `raised` while nothing was raised
NotRaised == [type |-> NoException, message |-> <<>>]

(***************************************************************************)
(* Bounds of the model.                                                    *)
(***************************************************************************)
\* the modules of the tree hold at most this many doctest examples in all
MaxExamples == 2
\* invocations of test_docstrings in one process
MaxRuns == 2

(***************************************************************************)
(* Paths (pathlib.Path).                                                   *)
(***************************************************************************)
Root == <<>>

\* Path.parent; the root is its own parent
Parent(p) == IF p = Root THEN Root ELSE SubSeq(p, 1, Len(p) - 1)

\* Path.name
Name(p) == IF p = Root THEN "" ELSE p[Len(p)]

\* the / operator of Path
Child(p, n) == Append(p, n)

\* p is q or an ancestor of q
IsPrefix(p, q) == Len(p) <= Len(q) /\ SubSeq(q, 1, Len(p)) = p

\* Path.relative_to, as the components of q below p
RelativeTo(q, p) == SubSeq(q, Len(p) + 1, Len(q))

RECURSIVE Join(_, _)
\* sep.join(parts)
Join(parts, sep) ==
    IF parts = <<>> THEN ""
    ELSE IF Len(parts) = 1 THEN parts[1]
    ELSE parts[1] \o sep \o Join(Tail(parts), sep)

\* str(path) of an absolute path
Str(p) == IF p = Root THEN "/" ELSE "/" \o Join(p, "/")

\* the dotted module name of a relative path: as_posix().replace("/", ".")
Dotted(rel) == IF rel = <<>> THEN "." ELSE Join(rel, ".")

(***************************************************************************)
(* The trees the model ranges over: /r/tests holds the harness, /r/src     *)
(* may exist and may hold the packages a, b, a/c and a/src, each with or   *)
(* without an __init__.py.  /r/src holds the module m.py, /r/src/a the     *)
(* modules k.py and m.py.                                                  *)
(***************************************************************************)
R == <<"r">>
T == <<"r", "tests">>
S == <<"r", "src">>
A == <<"r", "src", "a">>
B == <<"r", "src", "b">>
AC == <<"r", "src", "a", "c">>
AS == <<"r", "src", "a", "src">>
Lib == <<"lib">>

FixedDirs == {Root, R, T, Lib}
OptionalDirs == {S, A, B, AC, AS}

\* every directory but the root lies in a directory
PrefixClosed(ds) == \A d \in ds : Parent(d) \in ds

\* the name of the harness's own file, without its .py suffix
HarnessFile == "test_docstrings"

\* the examples doctest finds in the harness: the two of the docstring of
\* iter_modules
HarnessExamples == 2

\* the plain modules (name.py files) of a directory; the harness is one of
\* them in the directory it lies in
PlainModules(d) ==
    (IF d = S THEN {"m"} ELSE IF d = A THEN {"k", "m"} ELSE {})
        \cup (IF d = start THEN {HarnessFile} ELSE {})

\* str comparison of the names of the model, by code point:
\* "__init__.py" < "a" < "b" < "c" < "k" < "lib" < "m" < "r" < "src"
\* < "test_docstrings" < "tests"
NameRank(n) ==
    CASE n = "__init__.py" -> 0
      [] n = "a" -> 1
      [] n = "b" -> 2
      [] n = "c" -> 3
      [] n = "k" -> 4
      [] n = "lib" -> 5
      [] n = "m" -> 6
      [] n = "r" -> 7
      [] n = "src" -> 8
      [] n = "test_docstrings" -> 9
      [] n = "tests" -> 10

RECURSIVE PathLess(_, _)
\* Path.__lt__: the component lists compared as Python compares lists
PathLess(p, q) ==
    IF q = <<>> THEN FALSE
    ELSE IF p = <<>> THEN TRUE
    ELSE IF p[1] = q[1] THEN PathLess(Tail(p), Tail(q))
    ELSE NameRank(p[1]) < NameRank(q[1])

\* src_root.rglob("__init__.py")
Rglob(src) == {Child(d, "__init__.py") : d \in {x \in inits : IsPrefix(src, x)}}

\* a slip: the shallowest __init__.py first, the order of a breadth-first walk
SortedFirst_Shallowest(paths) ==
    CHOOSE p \in paths : \A q \in paths \ {p} :
        Len(p) < Len(q) \/ (Len(p) = Len(q) /\ PathLess(p, q))

\* sorted(paths)[0]
SortedFirst(paths) == CHOOSE p \in paths : \A q \in paths \ {p} : PathLess(p, q)

RECURSIVE FindFrom(_)
\* the while loop of _find_src_dir, from `current`
FindFrom(current) ==
    LET src == Child(current, "src") IN
    IF src \in dirs
    THEN LET init_files == Rglob(src) IN
         IF init_files # {} THEN Parent(SortedFirst(init_files)) ELSE src
    ELSE IF Parent(current) = current THEN None
    ELSE FindFrom(Parent(current))

\* a slip: the starting directory itself when no src is found
_find_src_dir_Fallback(from) == IF FindFrom(from) = None THEN from ELSE FindFrom(from)

\* _find_src_dir(start)
_find_src_dir(from) == FindFrom(from)

RECURSIVE ProbeFrom(_)
\* the probe loop of iter_modules: the nearest directory named src at or
\* above `probe`, or None
ProbeFrom(probe) ==
    IF Name(probe) = "src" THEN probe
    ELSE IF Parent(probe) = probe THEN None
    ELSE ProbeFrom(Parent(probe))

\* the real src root iter_modules settles on
SrcRootOf(pkg_dir) ==
    IF ProbeFrom(pkg_dir) = None THEN pkg_dir ELSE ProbeFrom(pkg_dir)

\* a slip: sys.path.insert(0, s) without the test
EnsureOnPath_Always(path, s) == <<s>> \o path

\* the sys.path after: if s not in sys.path: sys.path.insert(0, s)
EnsureOnPath(path, s) ==
    IF \E i \in 1..Len(path) : path[i] = s THEN path ELSE <<s>> \o path

(***************************************************************************)
(* The import system, as far as the harness uses it.                       *)
(***************************************************************************)
\* the directory a path string names
DirOf(s) == CHOOSE d \in FixedDirs \cup OptionalDirs : Str(d) = s

\* the locations of the code the harness can come to import: a package's
\* directory (its __init__.py) and a plain module's path without its .py
\* suffix, inside /r/src (line 107 passes over the modules of src itself);
\* the harness, which is running, is not among the modules that can raise
CodeLocs ==
    (inits \ {S})
        \cup UNION {{Child(d, n) : n \in PlainModules(d) \ {HarnessFile}} : d \in dirs \ {S}}

\* the relative paths a dotted name of the model can stand for
RelUniverse ==
    {RelativeTo(o, e) : o \in OptionalDirs \cup {Child(S, "m"), Child(A, "k"), Child(A, "m"),
                                                  Child(A, HarnessFile)},
                        e \in {S, A, AS}} \ {<<>>}

\* name.split(".")
SplitDots(name) ==
    IF \E rel \in RelUniverse : Dotted(rel) = name
    THEN CHOOSE rel \in RelUniverse : Dotted(rel) = name
    ELSE <<name>>

\* the finder's answer for one name component in a list of directories:
\* the first regular package or module file; failing that, the first
\* directory of that name (a namespace package); failing that, None
Locate(search, n) ==
    LET hits == {i \in 1..Len(search) :
                    Child(search[i], n) \in inits \/ n \in PlainModules(search[i])}
        nss == {i \in 1..Len(search) : Child(search[i], n) \in dirs}
        first(I) == CHOOSE i \in I : \A j \in I : i <= j
    IN  IF hits # {}
        THEN LET d == search[first(hits)] IN
             IF Child(d, n) \in inits
             THEN [kind |-> "package", loc |-> Child(d, n)]
             ELSE [kind |-> "module", loc |-> Child(d, n)]
        ELSE IF nss # {}
        THEN [kind |-> "namespace", loc |-> Child(search[first(nss)], n)]
        ELSE [kind |-> "none", loc |-> None]

RECURSIVE ImportParts(_, _)
\* importing the dotted name with components `parts`, its first component
\* looked up in `search`: every package on the way is imported first, and a
\* module whose code raises ends the import with its exception; `imported`
\* counts the leading components that were imported, which stay in
\* sys.modules when a later one fails
ImportParts(search, parts) ==
    LET found == Locate(search, parts[1]) IN
    IF found.kind = "none"
    THEN [exc |-> "ModuleNotFoundError", kind |-> "none", loc |-> None, imported |-> 0]
    ELSE IF found.kind # "namespace" /\ found.loc = brokenLoc
    THEN [exc |-> brokenExc, kind |-> found.kind, loc |-> found.loc, imported |-> 0]
    ELSE IF Len(parts) = 1
    THEN [exc |-> NoException, kind |-> found.kind, loc |-> found.loc, imported |-> 1]
    ELSE IF found.kind = "module"
    THEN [exc |-> "ModuleNotFoundError", kind |-> "none", loc |-> None, imported |-> 1]
    ELSE LET rest == ImportParts(<<found.loc>>, Tail(parts)) IN
         [rest EXCEPT !.imported = rest.imported + 1]

\* importlib.import_module(name) under the search path `path`
import_module(name, path) ==
    ImportParts([i \in 1..Len(path) |-> DirOf(path[i])], SplitDots(name))

\* a slip: every sub-directory counts as a package, with or without
\* an __init__.py
Entries_EveryDirectory(d) ==
    {[n |-> n, ispkg |-> FALSE] : n \in {x \in PlainModules(d) : Child(d, x) \notin inits}}
        \cup {[n |-> Name(c), ispkg |-> TRUE] : c \in {x \in dirs : x # d /\ Parent(x) = d}}

\* the entries pkgutil.iter_modules finds in one directory: its plain
\* modules and its sub-directories that hold an __init__.py
Entries(d) ==
    {[n |-> n, ispkg |-> FALSE] : n \in {x \in PlainModules(d) : Child(d, x) \notin inits}}
        \cup {[n |-> Name(c), ispkg |-> TRUE] : c \in {x \in inits : x # d /\ Parent(x) = d}}

RECURSIVE SortedEntries(_)
\* a set of entries as the sequence sorted by name (filenames.sort())
SortedEntries(es) ==
    IF es = {} THEN <<>>
    ELSE LET e == CHOOSE x \in es : \A y \in es : NameRank(x.n) <= NameRank(y.n)
         IN  <<e>> \o SortedEntries(es \ {e})

\* pkgutil.iter_modules([d], prefix), as (name, ispkg) records; `top` marks
\* the entries of the src directory itself
IterModules(d, prefix, top) ==
    LET es == SortedEntries(Entries(d)) IN
    [i \in 1..Len(es) |-> [name |-> prefix \o es[i].n, ispkg |-> es[i].ispkg, top |-> top]]

\* except ImportError: ModuleNotFoundError is a subclass of ImportError
CaughtByExceptImportError(exc) == exc \in {"ImportError", "ModuleNotFoundError"}

(***************************************************************************)
(* The pieces of test_docstrings.                                          *)
(***************************************************************************)
\* the TestResults doctest.testmod can return for a module that holds at
\* most `most` examples
Results(most) ==
    {r \in [attempted : 0..most, failed : 0..most] : r.failed <= r.attempted}

\* the exception class doctest.testmod ends with when it cannot parse a
\* docstring's examples (inconsistent leading whitespace)
EngineError == "ValueError"

\* how the call doctest.testmod(module, ...) can end for a module that holds
\* at most `most` examples: it returns a TestResults, or it raises
Outcomes(most) ==
    {[attempted |-> r.attempted, failed |-> r.failed, raises |-> FALSE] : r \in Results(most)}
        \cup {[attempted |-> 0, failed |-> 0, raises |-> TRUE]}

RECURSIVE Spaces(_)
Spaces(n) == IF n <= 0 THEN "" ELSE " " \o Spaces(n - 1)

\* "%*d" % (width, n), for the counts of the model
Padded(n, width) == Spaces(width - (IF n < 10 THEN 1 ELSE 2)) \o ToString(n)

\* the line of 70 asterisks doctest prints before each failure
Stars == "**********************************************************************"

\* the file of the module at `loc`: a package's __init__.py, a module's .py
FileOf(imp) ==
    IF imp.kind = "module" THEN Str(imp.loc) \o ".py" ELSE Str(imp.loc) \o "/__init__.py"

\* what doctest's runner prints for the failing example at line `line` of
\* the module docstring: the modules of the model hold their examples in the
\* module docstring from line 3 on, one on every other line, each the
\* source "1"; a passing one expects "1", a failing one "2"
FailureBlock(name, imp, line) ==
    <<Stars,
      "File \"" \o FileOf(imp) \o "\", line " \o ToString(line) \o ", in " \o name,
      "Failed example:", "    1", "Expected:", "    2", "Got:", "    1">>

RECURSIVE FailureBlocks(_, _, _, _)
\* the blocks of the failing examples i..failed, which come first in the
\* docstring
FailureBlocks(name, imp, i, nfailed) ==
    IF i > nfailed THEN <<>>
    ELSE FailureBlock(name, imp, 2 * i + 1) \o FailureBlocks(name, imp, i + 1, nfailed)

\* what doctest.testmod(module, verbose=False) writes to sys.stdout (report
\* is True by default): nothing for a module without failures, else the
\* failures and the runner's summary
DoctestReport(name, imp, results) ==
    IF results.failed = 0 THEN <<>>
    ELSE FailureBlocks(name, imp, 1, results.failed)
         \o <<Stars,
              "1 items had failures:",
              Padded(results.failed, 4) \o " of " \o Padded(results.attempted, 3)
                  \o " in " \o name,
              "***Test Failed*** " \o ToString(results.failed) \o " failures.">>

\* total_tests += results.attempted
AddAttempted(total, results) == total + results.attempted

\* a slip: total_failures = results.failed
AddFailed_Overwrite(total, results) == results.failed

\* total_failures += results.failed
AddFailed(total, results) == total + results.failed

\* a slip: failed_modules.insert(0, ...)
RecordFailed_Prepend(fm, name, results) ==
    IF results.failed > 0
    THEN <<(<<name, results.failed, results.attempted>>)>> \o fm
    ELSE fm

\* if results.failed > 0: failed_modules.append((name, failed, attempted))
RecordFailed(fm, name, results) ==
    IF results.failed > 0
    THEN Append(fm, <<name, results.failed, results.attempted>>)
    ELSE fm

RECURSIVE ReprItems(_)
\* the items of repr(list of str), comma separated
ReprItems(names) ==
    IF names = <<>> THEN ""
    ELSE IF Len(names) = 1 THEN "'" \o names[1] \o "'"
    ELSE "'" \o names[1] \o "', " \o ReprItems(Tail(names))

\* the message of the assert: f"Doctest failures in: {[m[0] for m in failed_modules]}"
AssertionMessage(fm) ==
    "Doctest failures in: [" \o ReprItems([i \in 1..Len(fm) |-> fm[i][1]]) \o "]"

\* a slip: attempted and failed the wrong way round
BreakdownLine_Swapped(entry) ==
    "  " \o entry[1] \o ": " \o ToString(entry[3]) \o "/" \o ToString(entry[2]) \o " failed"

\* the line printed for one entry of failed_modules
BreakdownLine(entry) ==
    "  " \o entry[1] \o ": " \o ToString(entry[2]) \o "/" \o ToString(entry[3]) \o " failed"

\* the lines the summary prints
SummaryLines(tt, nmods, tf, fm) ==
    <<"", "Doctest summary: " \o ToString(tt) \o " tests in " \o ToString(nmods) \o " modules",
      "Failures: " \o ToString(tf)>>
    \o (IF fm # <<>>
        THEN <<"", "Failed modules:">> \o [i \in 1..Len(fm) |-> BreakdownLine(fm[i])]
        ELSE <<>>)

\* the warning of line 181
NoDoctestsWarning == "No doctests were found"

\* assert total_failures == 0
AssertionPasses(tf) == tf = 0

\* a slip: the loop of line 153 starts before the generator is drained
Exhausted_Anytime(td) == TRUE

\* modules = list(iter_modules()): the list is there when the generator has
\* nothing left to yield
Exhausted(td) == td = <<>>

\* a slip: the warning of line 181 without the test of line 180
NoDoctestsFound_Unconditional(tt) == TRUE

\* if total_tests == 0
NoDoctestsFound(tt) == tt = 0

\* the message of an exception that a module's own code raised is that
\* module's business: the model keeps none
ModuleMessage == <<>>

\* the names sys.modules gains when the dotted name `name` is imported
ImportedNames(name) ==
    LET parts == SplitDots(name) IN {Dotted(SubSeq(parts, 1, i)) : i \in 1..Len(parts)}

\* a slip: a package that sys.modules already holds is not walked again
Below_OnlyFresh(name, imp) ==
    IF imp.kind = "module" \/ name \in sysModules
    THEN <<>>
    ELSE IterModules(imp.loc, name \o ".", FALSE)

\* what an invocation has aggregated when its loop is through
Aggregated(tt, tf, fm) ==
    [total_tests |-> tt, total_failures |-> tf, failed_modules |-> fm]

\* the names sys.modules has gained by the import `imp` of `name`, which may
\* have failed: the parents imported before the failure stay
ImportedBy(name, imp) ==
    LET parts == SplitDots(name) IN {Dotted(SubSeq(parts, 1, i)) : i \in 1..imp.imported}

\* the candidates walk_packages yields below an imported module: those of
\* its __path__, which a plain module does not have
Below(name, imp) ==
    IF imp.kind = "module" THEN <<>> ELSE IterModules(imp.loc, name \o ".", FALSE)

(***************************************************************************)
(* test_docs.py: the fixture readme_path and the output checker.  A text   *)
(* is the sequence of its whitespace-separated words.                      *)
(***************************************************************************)
\* the longest output, in words
MaxWords == 2

\* the directories test_docs.py can lie in, and their ancestors
DocsDirs == {Root, R, T}

\* the words of the outputs: plain words, numbers, the ellipsis marker, and
\* a word that passes the digit test of lines 66 and 71 without being a number
Words == {"ok", "no", "1.0", "1.0005", "2.0", "1-1", "..."}

\* x.replace(".", "", 1).replace("-", "", 1).isdigit()
LooksNumeric(x) == x \in {"1.0", "1.0005", "2.0", "1-1"}

\* float(x) raises ValueError
FloatRaises(x) == x = "1-1"

\* float(x), in millionths
Float(x) ==
    CASE x = "1.0" -> 1000000
      [] x = "1.0005" -> 1000500
      [] x = "2.0" -> 2000000

\* rel_tol=1e-3, as its inverse
RelTolInverse == 1000

\* abs_tol=1e-5, in millionths
AbsTol == 10

Abs(x) == IF x < 0 THEN -x ELSE x

Max(x, y) == IF x < y THEN y ELSE x

\* math.isclose(w, g, rel_tol=1e-3, abs_tol=1e-5)
isclose(w, g) ==
    \/ Abs(w - g) * RelTolInverse <= Max(Abs(w), Abs(g))
    \/ Abs(w - g) <= AbsTol

RECURSIVE EllipsisParts(_, _)
\* doctest._ellipsis_match on whitespace-normalised texts of more than one
\* word: a "..." between spaces stands for one word or more
EllipsisParts(w, g) ==
    IF w = <<>> THEN g = <<>>
    ELSE IF Head(w) = "..."
    THEN \E k \in 1..Len(g) : EllipsisParts(Tail(w), SubSeq(g, k + 1, Len(g)))
    ELSE g # <<>> /\ Head(g) = Head(w) /\ EllipsisParts(Tail(w), Tail(g))

\* doctest.OutputChecker.check_output under ELLIPSIS | NORMALIZE_WHITESPACE:
\* the same words, or an ellipsis match; a text that is just "..." matches
\* every output
StandardCheck(w, g) ==
    \/ w = g
    \/ w = <<"...">>
    \/ EllipsisParts(w, g)

\* the floats of lines 62-72: the words that pass the digit test
Numeric(text) == SelectSeq(text, LooksNumeric)

\* FloatTolerantOutputChecker.check_output(want, got, optionflags)
check_output(w, g) ==
    IF StandardCheck(w, g) THEN TRUE
    ELSE LET want_floats == Numeric(w)
             got_floats == Numeric(g)
         IN  IF \E i \in 1..Len(want_floats) : FloatRaises(want_floats[i])
             THEN FALSE
             ELSE IF \E i \in 1..Len(got_floats) : FloatRaises(got_floats[i])
             THEN FALSE
             ELSE IF Len(want_floats) # Len(got_floats) THEN FALSE
             ELSE \A i \in 1..Len(want_floats) :
                     isclose(Float(want_floats[i]), Float(got_floats[i]))

\* the texts of at most MaxWords words
Texts == UNION {[1..n -> Words] : n \in 0..MaxWords}

\* candidate.is_file(), for candidate = d / "README.md"
IsFile(d) == readmeKind[d] = "file"

\* test_docs.py has not been started
DocsOff ==
    /\ readmeKind = [d \in DocsDirs |-> "none"]
    /\ testDir = T
    /\ current_dir = None
    /\ readme = None
    /\ want = <<>>
    /\ got = <<>>
    /\ accepted = <<>>
    /\ failed = 0
    /\ docsPc = "off"
    /\ docsRaised = NoException

Init ==
    /\ dirs \in {FixedDirs \cup o : o \in {x \in SUBSET OptionalDirs :
                                            PrefixClosed(FixedDirs \cup x)}}
    /\ inits \in SUBSET (dirs \cap OptionalDirs)
    /\ start \in {T, A} \cap dirs
    /\ \/ brokenLoc = None /\ brokenExc = NoException
       \/ brokenLoc \in CodeLocs /\ brokenExc \in {"ImportError", "ValueError"}
    /\ sysPath \in {<<Str(Lib)>>, <<Str(Lib), Str(S)>>}
    /\ sysPath0 = sysPath
    /\ sysModules = {}
    /\ docResult = <<>>
    /\ pc = "idle"
    /\ src_or_pkg_dir = None
    /\ src_root = None
    /\ todo = <<>>
    /\ modules = <<>>
    /\ idx = 0
    /\ total_tests = 0
    /\ total_failures = 0
    /\ failed_modules = <<>>
    /\ stdout = <<>>
    /\ warned = <<>>
    /\ raised = NotRaised
    /\ swallowed = <<>>
    /\ runs = 0
    /\ previous = <<>>
    /\ DocsOff

\* the invocation ends with the exception `exc`, whose message is the lines
\* `message`
Raise(exc, message) ==
    /\ raised' = [type |-> exc, message |-> message]
    /\ pc' = "done"

\* iter_modules, lines 82-102: the package root, the real src root and sys.path;
\* then the candidates of the branch taken at line 104
Resolve ==
    /\ pc = "idle"
    /\ runs' = runs + 1
    /\ LET found == _find_src_dir(start) IN
       IF found = None
       THEN /\ Raise("RuntimeError",
                     <<"Could not locate project 'src' directory for module discovery">>)
            /\ UNCHANGED <<sysPath, src_or_pkg_dir, src_root, todo>>
       ELSE LET root == SrcRootOf(found)
                src_root_str == Str(root)
            IN  /\ src_or_pkg_dir' = found
                /\ src_root' = root
                /\ sysPath' = EnsureOnPath(sysPath, src_root_str)
                /\ todo' = IF found = root
                           THEN IterModules(DirOf(src_root_str), "", TRUE)
                           ELSE <<[name |-> Dotted(RelativeTo(found, root)),
                                   ispkg |-> TRUE, top |-> TRUE]>>
                /\ pc' = "enumerate"
                /\ UNCHANGED raised
    /\ UNCHANGED <<treeVars, previous, sysModules, docResult, modules, idx, total_tests,
                   total_failures, failed_modules, stdout, warned, swallowed>>

\* line 107: a top-level entry of src that is no package is passed over
SkipNonPackage ==
    /\ pc = "enumerate" /\ todo # <<>>
    /\ Head(todo).top /\ ~Head(todo).ispkg
    /\ todo' = Tail(todo)
    /\ UNCHANGED <<treeVars, previous, sysPath, sysModules, docResult, pc, src_or_pkg_dir,
                   src_root, modules, idx, total_tests, total_failures,
                   failed_modules, stdout, warned, raised, swallowed, runs>>

\* lines 109-111 and 121-123: the package is imported outside any try, then
\* yielded, and its contents are walked next
ImportPackage ==
    /\ pc = "enumerate" /\ todo # <<>>
    /\ Head(todo).top /\ Head(todo).ispkg
    /\ LET name == Head(todo).name
           imp == import_module(name, sysPath)
       IN  IF imp.exc # NoException
           THEN /\ Raise(imp.exc, ModuleMessage)
                /\ sysModules' = sysModules \cup ImportedBy(name, imp)
                /\ UNCHANGED <<modules, todo>>
           ELSE /\ sysModules' = sysModules \cup ImportedNames(name)
                /\ modules' = Append(modules, name)
                /\ todo' = Below(name, imp) \o Tail(todo)
                /\ UNCHANGED <<pc, raised>>
    /\ UNCHANGED <<treeVars, previous, sysPath, docResult, src_or_pkg_dir, src_root, idx,
                   total_tests, total_failures, failed_modules, stdout, warned,
                   swallowed, runs>>

\* lines 112-117 and 124-129: a name walk_packages yields is imported and
\* yielded; an ImportError is swallowed, any other exception propagates
ImportSubmodule ==
    /\ pc = "enumerate" /\ todo # <<>>
    /\ ~Head(todo).top
    /\ LET name == Head(todo).name
           imp == import_module(name, sysPath)
       IN  IF imp.exc = NoException
           THEN /\ sysModules' = sysModules \cup ImportedNames(name)
                /\ modules' = Append(modules, name)
                /\ todo' = Below(name, imp) \o Tail(todo)
                /\ UNCHANGED <<pc, raised, swallowed>>
           ELSE IF CaughtByExceptImportError(imp.exc)
           THEN /\ todo' = Tail(todo)
                /\ swallowed' = Append(swallowed, name)
                /\ sysModules' = sysModules \cup ImportedBy(name, imp)
                /\ UNCHANGED <<modules, pc, raised>>
           ELSE /\ Raise(imp.exc, ModuleMessage)
                /\ sysModules' = sysModules \cup ImportedBy(name, imp)
                /\ UNCHANGED <<modules, todo, swallowed>>
    /\ UNCHANGED <<treeVars, previous, sysPath, docResult, src_or_pkg_dir, src_root, idx,
                   total_tests, total_failures, failed_modules, stdout, warned, runs>>

\* line 146 is done, lines 149-151: the generator is exhausted
StartDoctests ==
    /\ pc = "enumerate" /\ Exhausted(todo)
    /\ pc' = "doctest"
    /\ idx' = 1
    /\ total_tests' = 0
    /\ total_failures' = 0
    /\ failed_modules' = <<>>
    /\ UNCHANGED <<treeVars, previous, sysPath, sysModules, docResult, src_or_pkg_dir,
                   src_root, todo, modules, stdout, warned, raised, swallowed, runs>>

\* the module `name` is the harness's own file, found by the walk
IsHarness(name) == import_module(name, sysPath).loc = Child(start, HarnessFile)

\* the examples attempted so far in modules other than the harness
AttemptedElsewhere ==
    total_tests - (IF \E i \in 1..(idx - 1) : IsHarness(modules[i])
                   THEN HarnessExamples ELSE 0)

\* lines 153-165: one turn of the loop; what doctest finds in a module is an
\* input, the same each time the module is run; the inputs are the trees
\* with at most MaxExamples examples outside the harness, and those with a
\* module that fails to import, in which the harness alone holds examples
\* and doctest.testmod does not raise.  The harness's own examples pass.  The call of lines 155-159 stands
\* in no try: an exception of doctest.testmod ends the invocation.
RunDoctest ==
    /\ pc = "doctest" /\ idx <= Len(modules)
    /\ LET name == modules[idx]
           imp == import_module(name, sysPath)
           harness == IsHarness(name)
           elsewhere == AttemptedElsewhere
       IN
       \E results \in Outcomes(MaxExamples + HarnessExamples) :
          /\ IF name \in DOMAIN docResult
             THEN results = docResult[name]
             ELSE IF harness
             THEN results = [attempted |-> HarnessExamples, failed |-> 0, raises |-> FALSE]
             ELSE /\ results.attempted + elsewhere <= MaxExamples
                  /\ (results.raises \/ results.attempted > 0) => brokenLoc = None
          /\ docResult' = (name :> results) @@ docResult
          /\ IF results.raises
             THEN /\ Raise(EngineError, ModuleMessage)
                  /\ UNCHANGED <<idx, total_tests, total_failures, failed_modules, stdout>>
             ELSE /\ stdout' = stdout \o DoctestReport(name, imp, results)
                  /\ total_tests' = AddAttempted(total_tests, results)
                  /\ total_failures' = AddFailed(total_failures, results)
                  /\ failed_modules' = RecordFailed(failed_modules, name, results)
                  /\ idx' = idx + 1
                  /\ UNCHANGED <<pc, raised>>
    /\ UNCHANGED <<treeVars, previous, sysPath, sysModules, src_or_pkg_dir, src_root,
                   todo, modules, warned, swallowed, runs>>

\* lines 168-174: the summary is printed
PrintSummary ==
    /\ pc = "doctest" /\ idx > Len(modules)
    /\ stdout' = stdout \o SummaryLines(total_tests, Len(modules), total_failures,
                                        failed_modules)
    /\ pc' = "verdict"
    /\ UNCHANGED <<treeVars, previous, sysPath, sysModules, docResult, src_or_pkg_dir,
                   src_root, todo, modules, idx, total_tests, total_failures,
                   failed_modules, warned, raised, swallowed, runs>>

\* lines 177-181: the assertion, then the warning
Verdict ==
    /\ pc = "verdict"
    /\ IF ~AssertionPasses(total_failures)
       THEN /\ Raise("AssertionError", <<AssertionMessage(failed_modules)>>)
            /\ UNCHANGED warned
       ELSE /\ warned' = IF NoDoctestsFound(total_tests)
                         THEN Append(warned, NoDoctestsWarning)
                         ELSE warned
            /\ pc' = "done"
            /\ UNCHANGED raised
    /\ UNCHANGED <<treeVars, previous, sysPath, sysModules, docResult, src_or_pkg_dir,
                   src_root, todo, modules, idx, total_tests, total_failures,
                   failed_modules, stdout, swallowed, runs>>

\* test_docstrings is invoked again in the same process, on the same tree
Rerun ==
    /\ pc = "done" /\ runs < MaxRuns
    /\ pc' = "idle"
    /\ src_or_pkg_dir' = None
    /\ src_root' = None
    /\ todo' = <<>>
    /\ modules' = <<>>
    /\ idx' = 0
    /\ total_tests' = 0
    /\ total_failures' = 0
    /\ failed_modules' = <<>>
    /\ stdout' = <<>>
    /\ warned' = <<>>
    /\ raised' = NotRaised
    /\ swallowed' = <<>>
    /\ previous' = IF idx = Len(modules) + 1
                   THEN <<Aggregated(total_tests, total_failures, failed_modules)>>
                   ELSE <<>>
    /\ UNCHANGED <<treeVars, sysPath, sysModules, docResult, runs>>

Next ==
    \/ Resolve
    \/ SkipNonPackage
    \/ ImportPackage
    \/ ImportSubmodule
    \/ StartDoctests
    \/ RunDoctest
    \/ PrintSummary
    \/ Verdict
    \/ Rerun


Spec == Init /\ [][Next]_vars

(***************************************************************************)
(* iter_modules(package_name), the public function called with a package   *)
(* name (lines 66-79), as a state machine of its own: it does not look for *)
(* src and leaves sys.path alone.                                          *)
(***************************************************************************)
\* the names the function is called with: a package, a package that may be
\* missing, a dotted name and a plain module
PackageNames == {"a", "b", "a.c", "a.k"}

\* lines 67-72: the package is imported outside any try and yielded; a
\* module without __path__ ends the generator
IterNamed ==
    /\ pc = "idle"
    /\ runs' = runs + 1
    /\ \E package_name \in PackageNames :
          LET imp == import_module(package_name, sysPath) IN
          /\ sysModules' = sysModules \cup ImportedBy(package_name, imp)
          /\ IF imp.exc # NoException
             THEN /\ Raise(imp.exc, ModuleMessage)
                  /\ UNCHANGED <<modules, todo>>
             ELSE /\ modules' = <<package_name>>
                  /\ IF imp.kind = "module"
                     THEN pc' = "done" /\ todo' = <<>>
                     ELSE pc' = "enumerate" /\ todo' = Below(package_name, imp)
                  /\ UNCHANGED raised
    /\ UNCHANGED <<treeVars, previous, sysPath, docResult, src_or_pkg_dir, src_root, idx,
                   total_tests, total_failures, failed_modules, stdout, warned,
                   swallowed>>

\* line 79: the walk of lines 73-78 is through
NamedReturn ==
    /\ pc = "enumerate" /\ Exhausted(todo)
    /\ pc' = "done"
    /\ UNCHANGED <<treeVars, previous, sysPath, sysModules, docResult, src_or_pkg_dir,
                   src_root, todo, modules, idx, total_tests, total_failures,
                   failed_modules, stdout, warned, raised, swallowed, runs>>

NextNamed ==
    \/ IterNamed
    \/ ImportSubmodule
    \/ NamedReturn
    \/ Rerun

SpecNamed == Init /\ [][NextNamed]_vars

(***************************************************************************)
(* test_docs.py as a state machine of its own: the fixture, then test_doc  *)
(* on a README with one example.                                           *)
(***************************************************************************)
harnessVars == <<dirs, inits, start, brokenLoc, brokenExc, sysPath, sysPath0,
                 sysModules, docResult, pc, src_or_pkg_dir, src_root, todo,
                 modules, idx, total_tests, total_failures, failed_modules,
                 stdout, warned, raised, swallowed, runs, previous>>

\* test_docstrings is not run: a tree without src, nothing imported
HarnessOff ==
    /\ dirs = FixedDirs
    /\ inits = {}
    /\ start = T
    /\ brokenLoc = None /\ brokenExc = NoException
    /\ sysPath = <<Str(Lib)>>
    /\ sysPath0 = sysPath
    /\ sysModules = {}
    /\ docResult = <<>>
    /\ pc = "idle"
    /\ src_or_pkg_dir = None
    /\ src_root = None
    /\ todo = <<>>
    /\ modules = <<>>
    /\ idx = 0
    /\ total_tests = 0
    /\ total_failures = 0
    /\ failed_modules = <<>>
    /\ stdout = <<>>
    /\ warned = <<>>
    /\ raised = NotRaised
    /\ swallowed = <<>>
    /\ runs = 0
    /\ previous = <<>>

\* line 36: the fixture starts in the directory of test_docs.py; README.md
\* is a file, a directory or absent in each directory at or above it
InitDocs ==
    /\ HarnessOff
    /\ testDir \in DocsDirs
    /\ readmeKind \in [DocsDirs -> {"file", "dir", "none"}]
    /\ current_dir = testDir
    /\ readme = None
    /\ want = <<>>
    /\ got = <<>>
    /\ accepted = <<>>
    /\ failed = 0
    /\ docsPc = "readme_path"
    /\ docsRaised = NoException

\* lines 37-42: one test of the loop condition, and the turn or the raise
\* that follows it
ReadmeStep ==
    /\ docsPc = "readme_path"
    /\ IF current_dir # Parent(current_dir)
       THEN IF IsFile(current_dir)
            THEN /\ readme' = Child(current_dir, "README.md")
                 /\ docsPc' = "test_doc"
                 /\ UNCHANGED <<current_dir, docsRaised>>
            ELSE /\ current_dir' = Parent(current_dir)
                 /\ UNCHANGED <<readme, docsPc, docsRaised>>
       ELSE /\ docsRaised' = "FileNotFoundError"
            /\ docsPc' = "done"
            /\ UNCHANGED <<current_dir, readme>>
    /\ UNCHANGED <<harnessVars, readmeKind, testDir, want, got, accepted, failed>>

\* lines 84-97: the README's example is run and its output checked; what the
\* example expects and what it prints are inputs
RunExample ==
    /\ docsPc = "test_doc"
    /\ \E w \in Texts, g \in Texts :
          /\ want' = w
          /\ got' = g
          /\ accepted' = <<check_output(w, g)>>
          /\ failed' = IF check_output(w, g) THEN 0 ELSE 1
    /\ docsPc' = "assert"
    /\ UNCHANGED <<harnessVars, readmeKind, testDir, current_dir, readme, docsRaised>>

\* line 99: assert result.failed == 0
AssertNoFailure ==
    /\ docsPc = "assert"
    /\ docsRaised' = IF failed = 0 THEN NoException ELSE "AssertionError"
    /\ docsPc' = "done"
    /\ UNCHANGED <<harnessVars, readmeKind, testDir, current_dir, readme, want, got,
                   accepted, failed>>

NextDocs ==
    \/ ReadmeStep
    \/ RunExample
    \/ AssertNoFailure

SpecDocs == InitDocs /\ [][NextDocs]_vars

(***************************************************************************)
(* What the claims speak of, stated apart from the code's own bookkeeping. *)
(***************************************************************************)
\* the modules whose doctests the loop has run: the first idx - 1 of them
Done == IF idx = 0 THEN <<>> ELSE SubSeq(modules, 1, idx - 1)

\* the loop of test_docstrings has run doctest on every discovered module
AllProcessed == pc \in {"doctest", "verdict", "done"} /\ idx = Len(modules) + 1

RECURSIVE SumOf(_, _)
\* the sum of f(name) over a sequence of names
SumOf(f(_), names) ==
    IF names = <<>> THEN 0 ELSE f(Head(names)) + SumOf(f, Tail(names))

AttemptedIn(name) == docResult[name].attempted
FailedIn(name) == docResult[name].failed

\* the modules of `names` with a failed example, in the order of `names`
Failing(names) == SelectSeq(names, LAMBDA n : FailedIn(n) > 0)

\* the entry failed_modules is to hold for a module
EntryOf(name) == <<name, FailedIn(name), AttemptedIn(name)>>

\* C1: once the loop has run doctest on every discovered module and the
\* invocation has ended, it has ended with the AssertionError if and only if
\* the failed counts of the discovered modules sum to more than 0.
C1_FailsIffFailedExamples ==
    (pc = "done" /\ AllProcessed) =>
        (raised.type = "AssertionError" <=> SumOf(FailedIn, modules) > 0)

\* a run that fails although a module without failures came after the
\* failing one
C1_Witness ==
    /\ pc = "done" /\ AllProcessed
    /\ raised.type = "AssertionError"
    /\ Len(modules) >= 2
    /\ FailedIn(modules[1]) > 0
    /\ FailedIn(modules[Len(modules)]) = 0

\* C2: while and after the loop runs, total_tests and total_failures are the
\* sums of the attempted and failed counts of the modules processed so far,
\* and failed_modules holds (name, failed, attempted) for exactly the
\* processed modules with failed > 0, in the order they were processed.
C2_TotalsAndFailedModules ==
    pc \in {"doctest", "verdict", "done"} /\ idx >= 1 =>
        /\ total_tests = SumOf(AttemptedIn, Done)
        /\ total_failures = SumOf(FailedIn, Done)
        /\ failed_modules = [i \in 1..Len(Failing(Done)) |-> EntryOf(Failing(Done)[i])]

\* all modules processed, two of them failing and one in between passing
C2_Witness ==
    /\ AllProcessed
    /\ Len(modules) >= 3
    /\ FailedIn(modules[1]) > 0
    /\ FailedIn(modules[2]) = 0
    /\ FailedIn(modules[3]) > 0
    /\ Len(failed_modules) = 2

\* the directories at or above the harness: start and its ancestors
StartAndAncestors == {SubSeq(start, 1, i) : i \in 0..Len(start)}

\* the src directory of the nearest of them that has one, or None
NearestSrc ==
    LET having == {p \in StartAndAncestors : Child(p, "src") \in dirs} IN
    IF having = {} THEN None
    ELSE Child(CHOOSE p \in having : \A q \in having : Len(q) <= Len(p), "src")

\* the nearest of them that is itself named src, or None
NearestNamedSrc ==
    LET named == {p \in StartAndAncestors : Name(p) = "src"} IN
    IF named = {} THEN None
    ELSE CHOOSE p \in named : \A q \in named : Len(q) <= Len(p)

\* p comes before q in the lexicographic order of their components
LexBefore(p, q) ==
    \E i \in 1..(Len(q)) :
        /\ i <= Len(p) + 1
        /\ \A j \in 1..(i - 1) : p[j] = q[j]
        /\ i = Len(p) + 1 \/ NameRank(p[i]) < NameRank(q[i])

\* the package root wanted below the directory src: the directory of the
\* lexicographically first __init__.py below it, or src itself
RootBelow(src) ==
    LET cands == {d \in inits : IsPrefix(src, d)} IN
    IF cands = {} THEN src
    ELSE CHOOSE d \in cands : \A e \in cands \ {d} :
             LexBefore(Child(d, "__init__.py"), Child(e, "__init__.py"))

\* the set of the elements of a sequence
Range(seq) == {seq[i] : i \in 1..Len(seq)}

\* the regular packages directly below the directory src
TopPackages(src) == {d \in inits : Parent(d) = src}

RECURSIVE ModulesOf(_, _)
\* the modules of the regular package at `d`, named `name`: the package, its
\* plain modules, and the modules of its regular sub-packages, as records
ModulesOf(d, name) ==
    {[name |-> name, loc |-> d]}
        \cup {[name |-> name \o "." \o n, loc |-> Child(d, n)] : n \in PlainModules(d)}
        \cup UNION {ModulesOf(c, name \o "." \o Name(c)) : c \in {x \in inits : Parent(x) = d}}

\* the packages the walk of iter_modules starts from, as modules
WalkedRoots ==
    IF src_or_pkg_dir = None THEN {}
    ELSE IF src_or_pkg_dir = src_root
    THEN {[name |-> Name(d), loc |-> d] : d \in TopPackages(src_root)}
    ELSE {[name |-> Dotted(RelativeTo(src_or_pkg_dir, src_root)), loc |-> src_or_pkg_dir]}

\* the modules below the walked packages
WalkedModules == UNION {ModulesOf(r.loc, r.name) : r \in WalkedRoots}

\* the module whose import raises is a module below a walked package, not
\* such a package itself
BrokenIsSubmodule ==
    /\ brokenLoc # None
    /\ \E m \in WalkedModules : m.loc = brokenLoc
    /\ \A r \in WalkedRoots : r.loc # brokenLoc

\* the walked modules that import cleanly: those neither broken nor inside
\* the broken package
CleanModules == {m \in WalkedModules : ~IsPrefix(brokenLoc, m.loc)}

\* C3 (as claimed): at the end of a run over a package of which one module
\* raises on import, every module of it that imports cleanly has been yielded
\* and has had its doctests run.
C3_BrokenModuleDoesNotAbort ==
    (pc = "done" /\ BrokenIsSubmodule) =>
        \A m \in CleanModules : m.name \in Range(modules) /\ m.name \in DOMAIN docResult

\* C4 (as claimed): at the end of a run the warnings recorded for modules
\* that failed to import are one for each such module.
C4_OneWarningPerBrokenModule ==
    pc = "done" =>
        Cardinality({i \in 1..Len(warned) : warned[i] # NoDoctestsWarning}) = Len(swallowed)

\* C5 (as claimed): when the starting path has an ancestor named src,
\* _find_src_dir answers for the nearest such ancestor: the directory of the
\* lexicographically first __init__.py below it, or that ancestor itself.
C5_NearestAncestorNamedSrc ==
    (pc # "idle" /\ NearestNamedSrc # None) => src_or_pkg_dir = RootBelow(NearestNamedSrc)

\* C5 (amended): _find_src_dir answers for the directory src that lies
\* directly in the nearest directory, among the starting directory and its
\* ancestors, that has one: the directory of the first __init__.py below it
\* in the lexicographic order of path components, or that src itself; and
\* None when none of them has a src.
C5_NearestSrcChild ==
    pc # "idle" =>
        LET nearest == NearestSrc IN
        src_or_pkg_dir = (IF nearest = None THEN None ELSE RootBelow(nearest))

\* the answer is a/c although b/__init__.py lies nearer to src
C5_Witness ==
    /\ pc # "idle"
    /\ src_or_pkg_dir = AC
    /\ B \in inits

\* C6: in a tree where neither the harness's directory nor any ancestor of
\* it has a src directory, an invocation ends with the RuntimeError and has
\* done nothing else: nothing is imported, sys.path is as it was, no module
\* was yielded and no doctest was run.
C6_NoSrcIsFatal ==
    NearestSrc = None =>
        /\ pc \in {"idle", "done"}
        /\ pc = "done" => raised.type = "RuntimeError"
        /\ sysModules = {}
        /\ sysPath = sysPath0
        /\ modules = <<>>
        /\ DOMAIN docResult = {}
        /\ idx = 0

\* a second invocation in such a tree has ended
C6_Witness == NearestSrc = None /\ pc = "done" /\ runs = 2 /\ raised.type = "RuntimeError"

\* the run went through: it ended with the verdict of line 177
RanThrough == pc = "done" /\ raised.type \in {NoException, "AssertionError"}

\* C7 (as claimed): a run that went through, in a tree where every module
\* imports cleanly and the harness settled on the located src directory, has
\* yielded every regular package directly below that src directory and
\* every module of each, and has run doctest on all of them.
C7_AllTopLevelPackages ==
    (RanThrough /\ brokenLoc = None /\ NearestSrc # None /\ src_root = NearestSrc) =>
        \A top \in TopPackages(NearestSrc) : \A m \in ModulesOf(top, Name(top)) :
            m.name \in Range(modules) /\ m.name \in DOMAIN docResult

\* C8 (as claimed): when the resolver's answer is a package below the src
\* directory it located, and every module imports cleanly, the directory put
\* on sys.path is that src directory, and the first module imported and
\* yielded is the package named by the dot-joined path from that src
\* directory to the package root.
C8_DottedNameFromLocatedSrc ==
    (RanThrough /\ brokenLoc = None /\ NearestSrc # None
        /\ src_or_pkg_dir \in inits /\ src_or_pkg_dir # NearestSrc) =>
        /\ src_root = NearestSrc
        /\ Str(NearestSrc) \in Range(sysPath)
        /\ modules # <<>>
        /\ modules[1] = Dotted(RelativeTo(src_or_pkg_dir, NearestSrc))
        /\ modules[1] \in sysModules

\* the sys.path entry of the harness in this tree
HarnessEntry == Str(SrcRootOf(RootBelow(NearestSrc)))

\* how often s occurs in the sequence
Count(seq, s) == Cardinality({i \in 1..Len(seq) : seq[i] = s})

\* C9: sys.path always ends with the sys.path of before the first
\* invocation, unchanged and in order, and has at most one entry more; once
\* an invocation has located src, after any number of invocations, the
\* harness's entry occurs in it exactly once.
C9_SearchPathIdempotent ==
    /\ Len(sysPath) >= Len(sysPath0)
    /\ SubSeq(sysPath, Len(sysPath) - Len(sysPath0) + 1, Len(sysPath)) = sysPath0
    /\ Len(sysPath) <= Len(sysPath0) + 1
    /\ (runs >= 1 /\ NearestSrc # None) =>
           LET entry == HarnessEntry IN
           /\ Count(sysPath, entry) = 1
           /\ sysPath = IF Count(sysPath0, entry) = 0
                        THEN <<entry>> \o sysPath0
                        ELSE sysPath0

\* the second invocation has ended in a process whose first one added the entry
C9_Witness ==
    /\ runs = 2 /\ pc = "done"
    /\ Count(sysPath0, HarnessEntry) = 0
    /\ Count(sysPath, HarnessEntry) = 1

\* the breakdown line of a module, from what doctest found in it
BreakdownOf(name) ==
    name \o ": " \o ToString(FailedIn(name)) \o "/" \o ToString(AttemptedIn(name)) \o " failed"

\* the lines of the report: the totals, then a line for each failing module
ReportOf(names) ==
    <<"", "Doctest summary: " \o ToString(SumOf(AttemptedIn, names)) \o " tests in "
             \o ToString(Len(names)) \o " modules",
      "Failures: " \o ToString(SumOf(FailedIn, names)),
      "", "Failed modules:">>
    \o [i \in 1..Len(Failing(names)) |-> "  " \o BreakdownOf(Failing(names)[i])]

\* the last lines of `lines` are `tail`
EndsWith(lines, tail) ==
    /\ Len(tail) <= Len(lines)
    /\ SubSeq(lines, Len(lines) - Len(tail) + 1, Len(lines)) = tail

\* the exception carries the line, indented or not
Carries(message, line) ==
    \E i \in 1..Len(message) : message[i] = line \/ message[i] = "  " \o line

\* C10 (as claimed): the AssertionError of a failed run carries the totals
\* and a breakdown line for every failing module.
C10_AssertionCarriesReport ==
    raised.type = "AssertionError" =>
        /\ \A line \in Range(SubSeq(ReportOf(modules), 2, 3)) : Carries(raised.message, line)
        /\ \A n \in Range(Failing(modules)) : Carries(raised.message, BreakdownOf(n))

\* C10 (amended): when the run fails, the report (total attempted, total
\* failed, and a line "  <module>: <failed>/<attempted> failed" for every
\* failing module, in the order the failures were recorded) has been printed
\* to standard output, and the AssertionError carries one line: "Doctest
\* failures in: " and the list of the failing modules' names in that order.
C10_ReportPrintedNamesRaised ==
    raised.type = "AssertionError" =>
        /\ EndsWith(stdout, ReportOf(modules))
        /\ raised.message =
              <<"Doctest failures in: ["
                  \o Join([i \in 1..Len(Failing(modules)) |->
                              "'" \o Failing(modules)[i] \o "'"], ", ")
                  \o "]">>

\* a failed run with two failing modules, one of them failing 1 of 1
C10_Witness ==
    /\ raised.type = "AssertionError"
    /\ Len(Failing(modules)) = 2
    /\ FailedIn(Failing(modules)[2]) = 1 /\ AttemptedIn(Failing(modules)[2]) = 1
    /\ EndsWith(stdout, ReportOf(modules))

\* C11: an invocation whose loop ran through ends with the warning "No
\* doctests were found" if and only if the attempted counts of the discovered
\* modules sum to 0 (as they do when no module was discovered); the warning
\* is given once, and an invocation without examples ends without an
\* exception.
C11_WarnsIffNoExamples ==
    (pc = "done" /\ AllProcessed) =>
        LET none == SumOf(AttemptedIn, modules) = 0 IN
        /\ none <=> warned = <<NoDoctestsWarning>>
        /\ ~none => warned = <<>>
        /\ none => raised = NotRaised

\* a run over two modules without examples that ended with the warning
C11_Witness ==
    /\ pc = "done" /\ AllProcessed
    /\ Len(modules) >= 2
    /\ total_tests = 0
    /\ warned = <<NoDoctestsWarning>>
    /\ raised = NotRaised

\* C12: an invocation that follows another in the same process, on the same
\* tree, aggregates what the one before it aggregated (total_tests,
\* total_failures, failed_modules), and its loop runs through exactly if the
\* loop of the one before it did.
C12_SecondRunAggregatesTheSame ==
    (runs >= 2 /\ pc = "done") =>
        /\ AllProcessed <=> previous # <<>>
        /\ AllProcessed =>
              previous = <<Aggregated(total_tests, total_failures, failed_modules)>>

\* a second run with a failure, after a first one that put src on sys.path
\* and imported the modules
C12_Witness ==
    /\ runs >= 2 /\ pc = "done" /\ AllProcessed
    /\ sysPath # sysPath0
    /\ Len(modules) >= 2
    /\ modules[2] \in sysModules
    /\ total_tests >= 2 /\ total_failures >= 1
    /\ previous # <<>>

\* doctest.testmod raised on the module `name`
EngineFailed(name) == name \in DOMAIN docResult /\ docResult[name].raises

\* C13: when doctest.testmod raises on a discovered module that is not the
\* last, the invocation does not end with that exception: it still runs the
\* loop over every discovered module, and its totals are the
\* sums over the modules on which doctest.testmod returned.
C13_EngineFailureDoesNotAbort ==
    (pc = "done" /\ \E i \in 1..(Len(modules) - 1) : EngineFailed(modules[i])) =>
        /\ AllProcessed
        /\ raised.type # EngineError
        /\ total_tests =
              SumOf(AttemptedIn, SelectSeq(modules, LAMBDA n : ~EngineFailed(n)))

\* the line "Failures: ..." of the summary is on stdout
SummaryPrinted ==
    \E i \in 1..Len(stdout) : stdout[i] = "Failures: " \o ToString(total_failures)

\* C14: the stages of an invocation follow one another.  Before the
\* enumeration has ended no doctest has run and nothing is aggregated or
\* printed; while the loop runs the enumeration is over and every discovered
\* module is imported; and the summary, the assertion and the warning come
\* only when doctest has run on every discovered module.
C14_StagesInOrder ==
    /\ pc \in {"idle", "enumerate"} =>
          Done = <<>> /\ total_tests = 0 /\ failed_modules = <<>> /\ stdout = <<>>
    /\ pc \in {"doctest", "verdict"} =>
          todo = <<>> /\ \A i \in 1..Len(modules) : modules[i] \in sysModules
    /\ \A i \in 1..Len(Done) : Done[i] \in sysModules
    /\ (pc = "verdict" \/ SummaryPrinted \/ warned # <<>>
            \/ raised.type = "AssertionError") => AllProcessed

\* the verdict is about to be evaluated on three modules, the last of which
\* was imported last and has a failing example
C14_Witness ==
    /\ pc = "verdict" /\ runs = 1
    /\ Len(modules) >= 3
    /\ FailedIn(modules[Len(modules)]) > 0
    /\ SummaryPrinted

\* the dotted names of the namespace-only packages below src_root: the
\* directories there that hold no __init__.py
NamespaceOnly ==
    IF src_root = None THEN {}
    ELSE {Dotted(RelativeTo(d, src_root)) :
             d \in {x \in dirs \ inits : IsPrefix(src_root, x) /\ x # src_root}}

\* C16: a namespace-only package below the src root is never among the
\* discovered modules, doctest is never run on it, and it is not among the
\* modules whose import failed; with no module that raises on import, the
\* enumeration ends without an exception and has yielded every module of the
\* regular packages it walks.
C16_NamespaceOnlyNeverRun ==
    /\ \A n \in NamespaceOnly :
          /\ n \notin Range(modules)
          /\ n \notin Range(swallowed)
          /\ pc \in {"doctest", "verdict", "done"} => n \notin DOMAIN docResult
    /\ (brokenLoc = None /\ src_root # None /\ pc # "enumerate") =>
          /\ idx >= 1
          /\ \A m \in WalkedModules : m.name \in Range(modules)

\* a finished run over the package a, whose sub-directory c is namespace-only
\* and sorts before its regular sub-package src, which was yielded
C16_Witness ==
    /\ pc = "done" /\ AllProcessed
    /\ "a.c" \in NamespaceOnly
    /\ "a" \in Range(modules)
    /\ "a.src" \in Range(modules)
    /\ "a.src" \in DOMAIN docResult

\* a word that is a floating-point number
IsNumber(x) == LooksNumeric(x) /\ ~FloatRaises(x)

\* two outputs that differ in nothing but the values of numbers, each within
\* the tolerance of the number in its place
SameButFloats(w, g) ==
    /\ Len(w) = Len(g)
    /\ \A i \in 1..Len(w) :
          \/ w[i] = g[i]
          \/ IsNumber(w[i]) /\ IsNumber(g[i]) /\ isclose(Float(w[i]), Float(g[i]))

\* C15: check_output answers True only for outputs that match under the
\* standard comparison or are the same but for close floats, and test_doc
\* ends with the AssertionError when the example's output is neither.
C15_AcceptsOnlyFloatDifferences ==
    accepted # <<>> =>
        LET matches == StandardCheck(want, got) \/ SameButFloats(want, got) IN
        /\ accepted[1] => matches
        /\ (docsPc = "done" /\ ~matches) => docsRaised = "AssertionError"

\* the directory of test_docs.py and its ancestors, the filesystem root
\* among them
UpwardChain == {SubSeq(testDir, 1, i) : i \in 0..Len(testDir)}

\* those of them that hold a file README.md
WithReadme == {d \in UpwardChain : IsFile(d)}

\* C17: when the fixture has ended, it has raised FileNotFoundError if and
\* only if no directory of the upward chain, the filesystem root included,
\* holds a file README.md; otherwise it has returned the README.md of the
\* nearest directory that holds one.
C17_ReadmeOfNearestOrNotFound ==
    docsPc \notin {"off", "readme_path"} =>
        /\ docsRaised = "FileNotFoundError" <=> WithReadme = {}
        /\ WithReadme # {} =>
              readme = Child(CHOOSE d \in WithReadme : \A e \in WithReadme : Len(e) <= Len(d),
                             "README.md")

====
